---- MODULE Spec2Model ----
(***************************************************************************)
(* k8s-ingress-hosts (src/glasses.go): the run of main, the address        *)
(* resolution for Ingress and HTTPRoute resources, the sort and rendering   *)
(* of the host entries, and the merge of the rendered block into the host  *)
(* file by tryWriteToHostFile.                                             *)
(*                                                                         *)
(* Text is modelled as a sequence of tokens.  A token is a tuple:          *)
(*   <<"# generated using k8s-ingress-hosts start #">>  the start marker   *)
(*   <<"# generated using k8s-ingress-hosts end #">>    the end marker     *)
(*                                         (without its trailing newline)  *)
(*   <<"\n">>                              a newline                       *)
(*   <<"text", t>>                         other bytes of a host file      *)
(*   <<"line", address, domain, comment>>  one rendered entry (its three   *)
(*                                         tab-separated cells)            *)
(* Domains are sequences of byte values, so that strings.ToLower and the   *)
(* byte-wise string comparison of Go are computed, not assumed.            *)
(***************************************************************************)
EXTENDS Integers, Sequences, FiniteSets, TLC

VARIABLES
    pc,              \* position of main
    configHost,      \* config.Host, as lexical tokens of the URL
    k8sHostname,     \* global k8sHostname
    writeHostFile,   \* flag -write
    entries,         \* var entries HostsList
    nIngress,        \* Ingress items ranged over so far
    nRoutes,         \* HTTPRoute items ranged over so far
    elem,            \* the Ingress item of the last iteration of the loop at line 162
    route,           \* the HTTPRoute item of the current iteration of the loop at line 202
    refIdx,          \* parentRefs ranged over so far in the current route
    address,         \* local variable address (lines 164 and 215)
    gwAddressCache,  \* gwAddressCache, a map: a function on the keys present
    hostEntries,     \* per run, the text handed to tryWriteToHostFile (wBuffer.String())
    hostFile,        \* the bytes of the file at *hostFile, on disk
    fpc,             \* per run, the position inside tryWriteToHostFile
    fileContent,     \* per run, local variable fileContent
    readContent,     \* per run, what os.ReadFile returned
    fatal,           \* what log.Fatalln reported, "" when nothing
    \* history variables: they record what happened and decide nothing
    lookups,         \* the keys gatewayAddress was called for, in call order
    observed,        \* <<route number, key, address>> for every parent reference resolved
    resolved,        \* per parent reference of the current route, the address it resolved to
    collected,       \* the entries as appended, before sort.Sort
    nReads,          \* per run, calls of os.ReadFile
    nWrites,         \* per run, calls of os.WriteFile
    origFile,        \* the host file when the run started
    fileLog,         \* the system calls on the host file, in order
    prevFile,        \* the content the last merge was applied to
    prevBody,        \* the entries of the merge before the last
    lastBody,        \* the entries of the last merge
    merges           \* merges applied so far

vars == <<pc, configHost, k8sHostname, writeHostFile, entries, nIngress, nRoutes, elem,
          route, refIdx, address, gwAddressCache, hostEntries, hostFile, fpc,
          fileContent, readContent, fatal, lookups, observed, resolved, collected, nReads, nWrites,
          origFile, fileLog, prevFile, prevBody, lastBody, merges>>

runVars == <<pc, configHost, k8sHostname, writeHostFile, entries, nIngress, nRoutes, elem,
             route, refIdx, address, gwAddressCache, fatal, lookups, observed, resolved,
             collected>>

mergeVars == <<prevFile, prevBody, lastBody, merges>>

fileVars == <<hostFile, fpc, fileContent, readContent, nReads, nWrites, fileLog>>

----------------------------------------------------------------------------
(* Bounds of the model *)

MaxFile == 6        \* tokens of an initial host file (SpecMerge)
MaxMerges == 2      \* merges applied in a row to one file (SpecMerge)
MaxEntries == 3     \* entries handed to the sort (SpecSort)
MaxLb == 3          \* load-balancer entries in the status of an Ingress (SpecResolve)
MaxIngress == 1     \* Ingress items of a run
MaxRoutes == 1      \* HTTPRoute items of a run (Spec)
MaxGwRoutes == 2    \* HTTPRoute items of a run (SpecGateway)
MaxRefs == 2        \* parentRefs of an HTTPRoute (SpecGateway)

----------------------------------------------------------------------------
(* Helpers *)

Max(S) == CHOOSE x \in S : \A y \in S : y <= x

Min(S) == CHOOSE x \in S : \A y \in S : x <= y

SeqsUpTo(S, n) == UNION {[1..k -> S] : k \in 0..n}

\* Runs of the program on one host file; the actions of main belong to MainRun
Procs == {"run1", "run2"}

MainRun == "run1"

----------------------------------------------------------------------------
(* Text *)

NL == <<"\n">>

StartTok == <<"# generated using k8s-ingress-hosts start #">>

EndTok == <<"# generated using k8s-ingress-hosts end #">>

sectionStart == <<StartTok>>

sectionEnd == <<EndTok, NL>>

\* Rule.String: "%s\t%s\t# %s".  The three cells of a line; the padding that
\* text/tabwriter puts between the cells is not represented.
RuleString(r) == <<"line", r.Address, r.Domain, "# " \o r.Service>>

\* The loop at lines 258-261 and the tabwriter pass: one line per entry, each
\* ended by a newline.
RECURSIVE Render(_)
Render(h) ==
    IF h = <<>> THEN <<>>
    ELSE <<RuleString(Head(h)), NL>> \o Render(Tail(h))

----------------------------------------------------------------------------
(* tryWriteToHostFile: the block and the regular expression                *)

\* fmt.Sprintf("%s\n%s\n%s", sectionStart, hostEntries, sectionEnd)
Block(he) == sectionStart \o <<NL>> \o he \o <<NL>> \o sectionEnd

HasAt(c, i, p) ==
    /\ i >= 1
    /\ i + Len(p) - 1 <= Len(c)
    /\ \A k \in 1..Len(p) : c[i + k - 1] = p[k]

\* (?ms)<sectionStart>(.*)<sectionEnd>: the positions at which a match that
\* starts at i can end.  With flag s the dot matches a newline too, so the
\* group matches any tokens.
MatchEnds(c, i) ==
    IF HasAt(c, i, sectionStart)
    THEN {j + Len(sectionEnd) - 1 :
            j \in {j \in (i + Len(sectionStart))..Len(c) : HasAt(c, j, sectionEnd)}}
    ELSE {}

MatchEndLazy(c, i) == Min(MatchEnds(c, i))

\* .* is greedy: of the ends possible the match takes the last
MatchEnd(c, i) == Max(MatchEnds(c, i))

MatchStarts(c, from) == {i \in from..Len(c) : MatchEnds(c, i) # {}}

\* re.Match
ReMatch(c) == MatchStarts(c, 1) # {}

\* re.ReplaceAll: the leftmost match, then the next one after its end, each
\* replaced by repl.  (The `$` expansion of repl is not represented: a marker
\* holds no `$`, and neither does a rendered address, host name or
\* resource name.)
RECURSIVE ReplaceFrom(_, _, _)
ReplaceFrom(c, from, repl) ==
    IF MatchStarts(c, from) = {}
    THEN SubSeq(c, from, Len(c))
    ELSE LET i == Min(MatchStarts(c, from))
             e == MatchEnd(c, i)
         IN  SubSeq(c, from, i - 1) \o repl \o ReplaceFrom(c, e + 1, repl)

ReplaceAll(c, repl) == ReplaceFrom(c, 1, repl)

\* lines 82-87: the content tryWriteToHostFile writes back
MergedContent(c, he) ==
    IF ReMatch(c) THEN ReplaceAll(c, Block(he)) ELSE c \o Block(he)

----------------------------------------------------------------------------
(* Strings as bytes: strings.ToLower and the comparison of Less            *)

\* strings.ToLower on ASCII: 'A'..'Z' (65..90) become 'a'..'z'
ToLower(s) == [i \in 1..Len(s) |-> IF s[i] >= 65 /\ s[i] <= 90 THEN s[i] + 32 ELSE s[i]]

\* Go's < on strings: byte-wise, a proper prefix is smaller
StrLess(a, b) ==
    \/ \E k \in 1..Len(a) :
          /\ k <= Len(b)
          /\ \A m \in 1..(k - 1) : a[m] = b[m]
          /\ a[k] < b[k]
    \/ /\ Len(a) < Len(b)
       /\ \A m \in 1..Len(a) : a[m] = b[m]

LessCaseSensitive(h, i, j) == StrLess(h[i].Domain, h[j].Domain)

\* HostsList.Less
Less(h, i, j) == StrLess(ToLower(h[i].Domain), ToLower(h[j].Domain))

\* sort.Sort(HostsList(entries)): some arrangement of the same elements in
\* which no element is Less than an earlier one; which one, among elements
\* that compare equal, the sort does not say (it is not stable).
SortOutcomes(h) ==
    {p \in {[i \in 1..Len(h) |-> h[f[i]]] : f \in Permutations(1..Len(h))} :
        \A i \in 1..Len(p) : \A j \in (i + 1)..Len(p) : ~Less(p, j, i)}

----------------------------------------------------------------------------
(* k8sHost: url.Parse(config.Host).Hostname()                              *)

\* Tokens of a URL that begin with a letter: only such a first token can be
\* a scheme (url.getScheme).
LetterFirst == {"https", "localhost", "api.example"}

\* the index of the first token of s equal to t, Len(s) + 1 when there is none
IndexOf(s, t) == Min({i \in 1..Len(s) : s[i] = t} \cup {Len(s) + 1})

\* url.Parse: [err, Scheme, Host], Host being the tokens of the authority
UrlParse(raw) ==
    LET hasScheme == Len(raw) >= 2 /\ raw[1] \in LetterFirst /\ raw[2] = ":"
        scheme == IF hasScheme THEN raw[1] ELSE ""
        rest == IF hasScheme THEN SubSeq(raw, 3, Len(raw)) ELSE raw
        segment == SubSeq(rest, 1, IndexOf(rest, "/") - 1)
    IN  IF rest # <<>> /\ rest[1] = "//"
        THEN [err |-> FALSE, Scheme |-> scheme,
              Host |-> SubSeq(rest, 2, IndexOf(rest, "/") - 1)]
        ELSE IF scheme = "" /\ \E i \in 1..Len(segment) : segment[i] = ":"
        THEN \* "first path segment in URL cannot contain colon"
             [err |-> TRUE, Scheme |-> "", Host |-> <<>>]
        ELSE \* an opaque URL or a path: no authority
             [err |-> FALSE, Scheme |-> scheme, Host |-> <<>>]

\* URL.Hostname: the host without its port
Hostname(u) == IF u.Host = <<>> THEN "" ELSE u.Host[1]

k8sHost(raw) == Hostname(UrlParse(raw))

\* the values of config.Host: with scheme and port, with scheme only, host:port
\* without a scheme (by name, by number), a bare host name.  client-go accepts
\* all of them (rest.DefaultServerURL adds the scheme that is missing).
ConfigHosts ==
    { <<"https", ":", "//", "api.example", ":", "6443">>,
      <<"https", ":", "//", "10.0.0.1">>,
      <<"localhost", ":", "8080">>,
      <<"10.0.0.1", ":", "6443">>,
      <<"api.example">> }

----------------------------------------------------------------------------
(* Address of an Ingress: lines 164-171                                    *)

RECURSIVE LbAddressFirstWins(_, _)
LbAddressFirstWins(lbs, fallback) ==
    IF lbs = <<>> THEN fallback
    ELSE LET lb == Head(lbs)
         IN  IF lb.IP # "" THEN lb.IP
             ELSE IF lb.Hostname # "" THEN lb.Hostname
             ELSE LbAddressFirstWins(Tail(lbs), fallback)

\* the loop over elem.Status.LoadBalancer.Ingress, address being the value
\* the loop starts from
RECURSIVE LbAddress(_, _)
LbAddress(lbs, addr) ==
    IF lbs = <<>> THEN addr
    ELSE LET lb == Head(lbs)
         IN  LbAddress(Tail(lbs),
                       IF lb.IP # "" THEN lb.IP
                       ELSE IF lb.Hostname # "" THEN lb.Hostname
                       ELSE addr)

\* the loop over elem.Spec.Rules: one Rule per declared host
IngressRules(e, addr) ==
    [i \in 1..Len(e.Rules) |-> [Domain |-> e.Rules[i], Address |-> addr, Service |-> e.Name]]

----------------------------------------------------------------------------
(* gatewayAddress: lines 98-131                                            *)

\* What dynClient...Get returns is a record
\*   [err, status (is "status" a map), addresses (is "addresses" a list),
\*    list (the elements: [isMap, hasValue (is "value" a string), value])]
RECURSIVE FirstValue(_)
FirstValue(list) ==
    IF list = <<>> THEN ""
    ELSE IF Head(list).isMap /\ Head(list).hasValue THEN Head(list).value
    ELSE FirstValue(Tail(list))

gatewayAddress(gw) ==
    IF gw.err THEN ""
    ELSE IF ~gw.status THEN ""
    ELSE IF ~gw.addresses THEN ""
    ELSE FirstValue(gw.list)

\* cacheKey := gwNamespace + "/" + gwName, gwNamespace being the route's
\* namespace when the reference names none
CacheKey(ref, routeNamespace) ==
    (IF ref.namespace = "" THEN routeNamespace ELSE ref.namespace) \o "/" \o ref.name

\* the loop over hostnames (lines 242-252): an element that is no string is skipped
RECURSIVE RouteRules(_, _, _)
RouteRules(hostnames, addr, r) ==
    IF hostnames = <<>> THEN <<>>
    ELSE (IF Head(hostnames).isString
          THEN <<[Domain |-> Head(hostnames).value, Address |-> addr,
                  Service |-> r.namespace \o "/" \o r.name]>>
          ELSE <<>>) \o RouteRules(Tail(hostnames), addr, r)

----------------------------------------------------------------------------
(* os.WriteFile: open with O_TRUNC, then write from offset 0               *)

OverlayAppend(f, d) == f \o d

\* the bytes of file f after d was written at offset 0
Overlay(f, d) == d \o SubSeq(f, Len(d) + 1, Len(f))

----------------------------------------------------------------------------
(* Inputs *)

dLowerA == <<97>>          \* "a"

dUpperA == <<65>>          \* "A"

dUpperB == <<66>>          \* "B"

dLowerAB == <<97, 98>>     \* "ab"

Domains == {dLowerA, dUpperA, dUpperB, dLowerAB}

LbEntries ==
    { [IP |-> "", Hostname |-> ""],
      [IP |-> "1.1.1.1", Hostname |-> ""],
      [IP |-> "", Hostname |-> "h.example"],
      [IP |-> "2.2.2.2", Hostname |-> "both.example"] }

NoElem == [Name |-> "", Status |-> <<>>, Rules |-> <<>>]

NoRoute == [name |-> "", namespace |-> "", specOk |-> FALSE,
            hostnames |-> <<>>, parentRefs |-> <<>>]

\* parentRefs elements: one that is no map, gateway gw in the route's own
\* namespace, gateway gw in namespace ns1
Refs ==
    { [isMap |-> FALSE, name |-> "", namespace |-> ""],
      [isMap |-> TRUE, name |-> "gw", namespace |-> ""],
      [isMap |-> TRUE, name |-> "gw", namespace |-> "ns1"] }

NonString == [isString |-> FALSE, value |-> <<>>]

HostnameLists == {<<>>, <<NonString, [isString |-> TRUE, value |-> dLowerA]>>}

\* what the Get of a Gateway can return
GwErr == [err |-> TRUE, status |-> FALSE, addresses |-> FALSE, list |-> <<>>]

GwObjects ==
    { GwErr,
      [err |-> FALSE, status |-> FALSE, addresses |-> FALSE, list |-> <<>>],
      [err |-> FALSE, status |-> TRUE, addresses |-> FALSE, list |-> <<>>],
      [err |-> FALSE, status |-> TRUE, addresses |-> TRUE,
       list |-> << [isMap |-> FALSE, hasValue |-> FALSE, value |-> ""],
                   [isMap |-> TRUE, hasValue |-> TRUE, value |-> "10.1.1.1"] >>],
      [err |-> FALSE, status |-> TRUE, addresses |-> TRUE,
       list |-> << [isMap |-> TRUE, hasValue |-> FALSE, value |-> ""],
                   [isMap |-> TRUE, hasValue |-> TRUE, value |-> "10.2.2.2"],
                   [isMap |-> TRUE, hasValue |-> TRUE, value |-> "10.1.1.1"] >>],
      [err |-> FALSE, status |-> TRUE, addresses |-> TRUE,
       list |-> << [isMap |-> TRUE, hasValue |-> TRUE, value |-> ""],
                   [isMap |-> TRUE, hasValue |-> TRUE, value |-> "10.1.1.1"] >>] }

UserText == <<"text", "127.0.0.1 localhost">>

FileTokens == {StartTok, EndTok, NL, UserText}

----------------------------------------------------------------------------
(* main: lines 133-160                                                     *)

\* -version: print and os.Exit(0)
ShowVersion ==
    /\ pc = "start"
    /\ pc' = "exit"
    /\ UNCHANGED <<configHost, k8sHostname, writeHostFile, entries, nIngress, nRoutes,
                   elem, route, refIdx, address, gwAddressCache, fatal, lookups,
                   observed, resolved, collected>>
    /\ UNCHANGED <<hostEntries, origFile, fileVars, mergeVars>>

\* BuildConfigFromFlags or kubernetes.NewForConfig returns an error: log.Fatalln
ClientSetupFails ==
    /\ pc = "start"
    /\ pc' = "fatal"
    /\ fatal' = "config"
    /\ UNCHANGED <<configHost, k8sHostname, writeHostFile, entries, nIngress, nRoutes,
                   elem, route, refIdx, address, gwAddressCache, lookups, observed,
                   resolved, collected>>
    /\ UNCHANGED <<hostEntries, origFile, fileVars, mergeVars>>

\* k8sHostname = k8sHost(config); k8sHost ends the run when url.Parse fails
Start ==
    /\ pc = "start"
    /\ IF UrlParse(configHost).err
       THEN /\ pc' = "fatal"
            /\ fatal' = "k8sHost"
            /\ UNCHANGED k8sHostname
       ELSE /\ pc' = "ingress"
            /\ k8sHostname' = k8sHost(configHost)
            /\ UNCHANGED fatal
    /\ UNCHANGED <<configHost, writeHostFile, entries, nIngress, nRoutes, elem, route,
                   refIdx, address, gwAddressCache, lookups, observed, resolved,
                   collected>>
    /\ UNCHANGED <<hostEntries, origFile, fileVars, mergeVars>>

\* Ingresses("").List returns an error: log.Fatalln
ListIngressFails ==
    /\ pc = "ingress"
    /\ nIngress = 0
    /\ pc' = "fatal"
    /\ fatal' = "list ingress"
    /\ UNCHANGED <<configHost, k8sHostname, writeHostFile, entries, nIngress, nRoutes,
                   elem, route, refIdx, address, gwAddressCache, lookups, observed,
                   resolved, collected>>
    /\ UNCHANGED <<hostEntries, origFile, fileVars, mergeVars>>

\* one iteration of the loop at line 162
CollectIngress(e) ==
    /\ pc = "ingress"
    /\ elem' = e
    /\ address' = LbAddress(e.Status, k8sHostname)
    /\ entries' = entries \o IngressRules(e, address')
    /\ nIngress' = nIngress + 1
    /\ UNCHANGED <<pc, configHost, k8sHostname, writeHostFile, nRoutes, route, refIdx,
                   gwAddressCache, fatal, lookups, observed, resolved, collected>>
    /\ UNCHANGED <<hostEntries, origFile, fileVars, mergeVars>>

\* the loop at line 162 ends
IngressDone ==
    /\ pc = "ingress"
    /\ pc' = "routes"
    /\ UNCHANGED <<configHost, k8sHostname, writeHostFile, entries, nIngress, nRoutes,
                   elem, route, refIdx, address, gwAddressCache, fatal, lookups,
                   observed, resolved, collected>>
    /\ UNCHANGED <<hostEntries, origFile, fileVars, mergeVars>>

----------------------------------------------------------------------------
(* main: lines 182-254, the HTTPRoutes                                     *)

\* dynamic.NewForConfig returns an error: log.Fatalln
DynClientFails ==
    /\ pc = "routes"
    /\ nRoutes = 0
    /\ pc' = "fatal"
    /\ fatal' = "dynamic client"
    /\ UNCHANGED <<configHost, k8sHostname, writeHostFile, entries, nIngress, nRoutes,
                   elem, route, refIdx, address, gwAddressCache, lookups, observed,
                   resolved, collected>>
    /\ UNCHANGED <<hostEntries, origFile, fileVars, mergeVars>>

\* the List of HTTPRoutes returns an error: a note on stderr, and on to the sort
ListRoutesFails ==
    /\ pc = "routes"
    /\ nRoutes = 0
    /\ pc' = "sort"
    /\ UNCHANGED <<configHost, k8sHostname, writeHostFile, entries, nIngress, nRoutes,
                   elem, route, refIdx, address, gwAddressCache, fatal, lookups,
                   observed, resolved, collected>>
    /\ UNCHANGED <<hostEntries, origFile, fileVars, mergeVars>>

\* lines 202-216: the next route; one whose spec is no map is passed over
BeginRoute(r) ==
    /\ pc = "routes"
    /\ nRoutes' = nRoutes + 1
    /\ IF r.specOk
       THEN /\ route' = r
            /\ address' = k8sHostname
            /\ refIdx' = 0
            /\ resolved' = <<>>
            /\ pc' = "refs"
       ELSE UNCHANGED <<route, address, refIdx, resolved, pc>>
    /\ UNCHANGED <<configHost, k8sHostname, writeHostFile, entries, nIngress, elem,
                   gwAddressCache, fatal, lookups, observed, collected>>
    /\ UNCHANGED <<hostEntries, origFile, fileVars, mergeVars>>

CurrentRef == route.parentRefs[refIdx + 1]

\* lines 218-221: a parent reference that is no map
SkipParentRef ==
    /\ pc = "refs"
    /\ refIdx < Len(route.parentRefs)
    /\ ~CurrentRef.isMap
    /\ refIdx' = refIdx + 1
    /\ UNCHANGED <<pc, configHost, k8sHostname, writeHostFile, entries, nIngress, nRoutes,
                   elem, route, address, gwAddressCache, fatal, lookups, observed,
                   resolved, collected>>
    /\ UNCHANGED <<hostEntries, origFile, fileVars, mergeVars>>

\* lines 229-232: the key is in the cache
CachedParentRef ==
    /\ pc = "refs"
    /\ refIdx < Len(route.parentRefs)
    /\ CurrentRef.isMap
    /\ LET cacheKey == CacheKey(CurrentRef, route.namespace)
       IN  /\ cacheKey \in DOMAIN gwAddressCache
           /\ LET cached == gwAddressCache[cacheKey]
              IN  /\ address' = IF cached # "" THEN cached ELSE address
                  /\ observed' = observed \cup {<<cacheKey, cached>>}
                  /\ resolved' = Append(resolved, [key |-> cacheKey, addr |-> cached])
    /\ refIdx' = refIdx + 1
    /\ UNCHANGED <<pc, configHost, k8sHostname, writeHostFile, entries, nIngress, nRoutes,
                   elem, route, gwAddressCache, fatal, lookups, collected>>
    /\ UNCHANGED <<hostEntries, origFile, fileVars, mergeVars>>

CacheStoreResolvedOnly(cache, key, addr) ==
    IF addr # "" THEN cache @@ (key :> addr) ELSE cache

\* gwAddressCache[cacheKey] = addr
CacheStore(cache, key, addr) == cache @@ (key :> addr)

FreshAddressUnchecked(addr, current) == addr

\* lines 236-238: the address after a lookup that returned addr
FreshAddress(addr, current) == IF addr # "" THEN addr ELSE current

\* lines 233-239: the key is not in the cache; gw is what the Get returns
LookupParentRef(gw) ==
    /\ pc = "refs"
    /\ refIdx < Len(route.parentRefs)
    /\ CurrentRef.isMap
    /\ LET cacheKey == CacheKey(CurrentRef, route.namespace)
           addr == gatewayAddress(gw)
       IN  /\ cacheKey \notin DOMAIN gwAddressCache
           /\ lookups' = Append(lookups, cacheKey)
           /\ gwAddressCache' = CacheStore(gwAddressCache, cacheKey, addr)
           /\ address' = FreshAddress(addr, address)
           /\ observed' = observed \cup {<<cacheKey, addr>>}
           /\ resolved' = Append(resolved, [key |-> cacheKey, addr |-> addr])
    /\ refIdx' = refIdx + 1
    /\ UNCHANGED <<pc, configHost, k8sHostname, writeHostFile, entries, nIngress, nRoutes,
                   elem, route, fatal, collected>>
    /\ UNCHANGED <<hostEntries, origFile, fileVars, mergeVars>>

\* lines 242-252: the records of the route, and on to the next route
EmitRoute ==
    /\ pc = "refs"
    /\ refIdx = Len(route.parentRefs)
    /\ entries' = entries \o RouteRules(route.hostnames, address, route)
    /\ pc' = "routes"
    /\ UNCHANGED <<configHost, k8sHostname, writeHostFile, nIngress, nRoutes, elem, route,
                   refIdx, address, gwAddressCache, fatal, lookups, observed, resolved,
                   collected>>
    /\ UNCHANGED <<hostEntries, origFile, fileVars, mergeVars>>

\* the loop at line 202 ends
RoutesDone ==
    /\ pc = "routes"
    /\ pc' = "sort"
    /\ UNCHANGED <<configHost, k8sHostname, writeHostFile, entries, nIngress, nRoutes,
                   elem, route, refIdx, address, gwAddressCache, fatal, lookups,
                   observed, resolved, collected>>
    /\ UNCHANGED <<hostEntries, origFile, fileVars, mergeVars>>

----------------------------------------------------------------------------
(* main: lines 256-277, sort, render, print or write                       *)

\* sort.Sort, the loop over entries and the tabwriter
SortAndRender ==
    /\ pc = "sort"
    /\ \E sorted \in SortOutcomes(entries) :
          /\ entries' = sorted
          /\ hostEntries' = [hostEntries EXCEPT ![MainRun] = Render(sorted)]
    /\ collected' = entries
    /\ pc' = "mode"
    /\ UNCHANGED <<configHost, k8sHostname, writeHostFile, nIngress, nRoutes, elem, route,
                   refIdx, address, gwAddressCache, fatal, lookups, observed, resolved>>
    /\ UNCHANGED <<origFile, fileVars, mergeVars>>

\* !*writeHostFile: print and os.Exit(0)
PrintMode ==
    /\ pc = "mode"
    /\ ~writeHostFile
    /\ pc' = "exit"
    /\ UNCHANGED <<configHost, k8sHostname, writeHostFile, entries, nIngress, nRoutes,
                   elem, route, refIdx, address, gwAddressCache, fatal, lookups,
                   observed, resolved, collected>>
    /\ UNCHANGED <<hostEntries, origFile, fileVars, mergeVars>>

\* line 273: the call of tryWriteToHostFile
CallTryWrite ==
    /\ pc = "mode"
    /\ writeHostFile
    /\ pc' = "file"
    /\ fpc' = [fpc EXCEPT ![MainRun] = "read"]
    /\ UNCHANGED <<configHost, k8sHostname, writeHostFile, entries, nIngress, nRoutes,
                   elem, route, refIdx, address, gwAddressCache, fatal, lookups,
                   observed, resolved, collected>>
    /\ UNCHANGED <<hostEntries, origFile, hostFile, fileContent, readContent, nReads,
                   nWrites, fileLog, mergeVars>>

\* lines 273-275: tryWriteToHostFile returned
ReturnFromTryWrite ==
    /\ pc = "file"
    /\ fpc[MainRun] \in {"done", "err"}
    /\ IF fpc[MainRun] = "done"
       THEN pc' = "done" /\ UNCHANGED fatal
       ELSE pc' = "fatal" /\ fatal' = "tryWriteToHostFile"
    /\ UNCHANGED <<configHost, k8sHostname, writeHostFile, entries, nIngress, nRoutes,
                   elem, route, refIdx, address, gwAddressCache, lookups, observed,
                   resolved, collected>>
    /\ UNCHANGED <<hostEntries, origFile, fileVars, mergeVars>>

----------------------------------------------------------------------------
(* tryWriteToHostFile, run p: lines 74-95                                  *)

\* os.ReadFile returns the bytes of the file
ReadFileOk(p) ==
    /\ fpc[p] = "read"
    /\ nReads' = [nReads EXCEPT ![p] = @ + 1]
    /\ fileContent' = [fileContent EXCEPT ![p] = hostFile]
    /\ readContent' = [readContent EXCEPT ![p] = hostFile]
    /\ fileLog' = Append(fileLog, <<"read", p>>)
    /\ fpc' = [fpc EXCEPT ![p] = "merge"]
    /\ UNCHANGED <<runVars, hostEntries, origFile, hostFile, nWrites, mergeVars>>

ReadFileFailsIgnored(p) ==
    /\ fpc[p] = "read"
    /\ nReads' = [nReads EXCEPT ![p] = @ + 1]
    /\ fileLog' = Append(fileLog, <<"read failed", p>>)
    /\ fpc' = [fpc EXCEPT ![p] = "merge"]
    /\ UNCHANGED <<runVars, hostEntries, origFile, hostFile, fileContent, readContent,
                   nWrites, mergeVars>>

\* os.ReadFile returns an error: return err
ReadFileFails(p) ==
    /\ fpc[p] = "read"
    /\ nReads' = [nReads EXCEPT ![p] = @ + 1]
    /\ fileLog' = Append(fileLog, <<"read failed", p>>)
    /\ fpc' = [fpc EXCEPT ![p] = "err"]
    /\ UNCHANGED <<runVars, hostEntries, origFile, hostFile, fileContent, readContent,
                   nWrites, mergeVars>>

\* lines 82-87: replace the span or append the block
MergeBlock(p) ==
    /\ fpc[p] = "merge"
    /\ fileContent' = [fileContent EXCEPT ![p] = MergedContent(@, hostEntries[p])]
    /\ fpc' = [fpc EXCEPT ![p] = "open"]
    /\ UNCHANGED <<runVars, hostEntries, origFile, hostFile, readContent, nReads, nWrites,
                   fileLog, mergeVars>>

\* os.WriteFile, its open: the file is truncated
OpenTrunc(p) ==
    /\ fpc[p] = "open"
    /\ nWrites' = [nWrites EXCEPT ![p] = @ + 1]
    /\ hostFile' = <<>>
    /\ fileLog' = Append(fileLog, <<"trunc", p>>)
    /\ fpc' = [fpc EXCEPT ![p] = "write"]
    /\ UNCHANGED <<runVars, hostEntries, origFile, fileContent, readContent, nReads,
                   mergeVars>>

\* os.WriteFile, its open fails: return err
OpenFails(p) ==
    /\ fpc[p] = "open"
    /\ nWrites' = [nWrites EXCEPT ![p] = @ + 1]
    /\ fileLog' = Append(fileLog, <<"open failed", p>>)
    /\ fpc' = [fpc EXCEPT ![p] = "err"]
    /\ UNCHANGED <<runVars, hostEntries, origFile, hostFile, fileContent, readContent,
                   nReads, mergeVars>>

\* os.WriteFile, its write: the bytes go to offset 0 of the file as it is now
WriteData(p) ==
    /\ fpc[p] = "write"
    /\ hostFile' = Overlay(hostFile, fileContent[p])
    /\ fileLog' = Append(fileLog, <<"write", p>>)
    /\ fpc' = [fpc EXCEPT ![p] = "done"]
    /\ UNCHANGED <<runVars, hostEntries, origFile, fileContent, readContent, nReads,
                   nWrites, mergeVars>>

\* os.WriteFile, its write fails after k bytes: return err
WriteFails(p) ==
    /\ fpc[p] = "write"
    /\ \E k \in 0..(Len(fileContent[p]) - 1) :
          hostFile' = Overlay(hostFile, SubSeq(fileContent[p], 1, k))
    /\ fileLog' = Append(fileLog, <<"write failed", p>>)
    /\ fpc' = [fpc EXCEPT ![p] = "err"]
    /\ UNCHANGED <<runVars, hostEntries, origFile, fileContent, readContent, nReads,
                   nWrites, mergeVars>>

\* tryWriteToHostFile(he) from its first line to its last, alone and with no error
MergeApply(he) ==
    /\ prevFile' = hostFile
    /\ hostFile' = MergedContent(hostFile, he)
    /\ prevBody' = lastBody
    /\ lastBody' = he
    /\ merges' = merges + 1
    /\ UNCHANGED <<runVars, hostEntries, origFile, fpc, fileContent, readContent, nReads,
                   nWrites, fileLog>>

----------------------------------------------------------------------------
(* The state before anything ran *)

\* main has collected nothing
NothingCollected ==
    /\ entries = <<>>
    /\ nIngress = 0
    /\ nRoutes = 0
    /\ elem = NoElem
    /\ route = NoRoute
    /\ refIdx = 0
    /\ address = ""
    /\ gwAddressCache = <<>>
    /\ fatal = ""
    /\ lookups = <<>>
    /\ observed = {}
    /\ resolved = <<>>
    /\ collected = <<>>

FileIdle ==
    /\ fpc = [p \in Procs |-> "idle"]
    /\ fileContent = [p \in Procs |-> <<>>]
    /\ readContent = [p \in Procs |-> <<>>]
    /\ nReads = [p \in Procs |-> 0]
    /\ nWrites = [p \in Procs |-> 0]
    /\ fileLog = <<>>

MergeIdle ==
    /\ prevFile = <<>>
    /\ prevBody = <<>>
    /\ lastBody = <<>>
    /\ merges = 0

NoEntries == [p \in Procs |-> <<>>]

RuleWeb == [Domain |-> dLowerA, Address |-> "9.9.9.9", Service |-> "web"]

RuleApi == [Domain |-> dUpperB, Address |-> "10.0.0.1", Service |-> "api"]

\* the entries of no record and of two records, rendered
Bodies == {Render(<<>>), Render(<<RuleWeb, RuleApi>>)}

----------------------------------------------------------------------------
(* Spec: one run of main                                                   *)

IngressItems ==
    { [Name |-> "web", Status |-> st, Rules |-> ru] :
        st \in { <<>>,
                 <<[IP |-> "", Hostname |-> ""], [IP |-> "1.1.1.1", Hostname |-> ""]>> },
        ru \in { <<>>, <<dUpperB, dLowerA>> } }

RouteItems ==
    { [name |-> "r", namespace |-> "ns1", specOk |-> TRUE, hostnames |-> hn,
       parentRefs |-> pr] :
        hn \in HostnameLists,
        pr \in { <<>>,
                 <<[isMap |-> TRUE, name |-> "gw", namespace |-> ""]>>,
                 <<[isMap |-> FALSE, name |-> "", namespace |-> ""],
                   [isMap |-> TRUE, name |-> "gw", namespace |-> ""],
                   [isMap |-> TRUE, name |-> "gw", namespace |-> "ns1"]>> } }
    \cup { [name |-> "r", namespace |-> "ns1", specOk |-> FALSE,
            hostnames |-> <<>>, parentRefs |-> <<>>] }

MainFiles ==
    { <<UserText, NL>>,
      <<UserText, NL>> \o Block(Render(<<RuleApi>>)) \o <<UserText, NL>> }

Init ==
    /\ pc = "start"
    /\ configHost \in ConfigHosts
    /\ writeHostFile \in BOOLEAN
    /\ hostFile \in MainFiles
    /\ origFile = hostFile
    /\ hostEntries = NoEntries
    /\ k8sHostname = ""
    /\ NothingCollected
    /\ FileIdle
    /\ MergeIdle

Next ==
    \/ ShowVersion
    \/ ClientSetupFails
    \/ Start
    \/ ListIngressFails
    \/ \E e \in IngressItems : nIngress < MaxIngress /\ CollectIngress(e)
    \/ IngressDone
    \/ DynClientFails
    \/ ListRoutesFails
    \/ \E r \in RouteItems : nRoutes < MaxRoutes /\ BeginRoute(r)
    \/ SkipParentRef
    \/ CachedParentRef
    \/ \E gw \in GwObjects : LookupParentRef(gw)
    \/ EmitRoute
    \/ RoutesDone
    \/ SortAndRender
    \/ PrintMode
    \/ CallTryWrite
    \/ ReadFileOk(MainRun)
    \/ ReadFileFails(MainRun)
    \/ MergeBlock(MainRun)
    \/ OpenTrunc(MainRun)
    \/ OpenFails(MainRun)
    \/ WriteData(MainRun)
    \/ WriteFails(MainRun)
    \/ ReturnFromTryWrite

Spec == Init /\ [][Next]_vars

----------------------------------------------------------------------------
(* SpecResolve: the address of one Ingress, over every status list         *)

ResolveItems ==
    { [Name |-> "web", Status |-> st, Rules |-> <<dLowerA>>] :
        st \in SeqsUpTo(LbEntries, MaxLb) }

InitResolve ==
    /\ pc = "start"
    /\ configHost \in ConfigHosts
    /\ k8sHostname = ""
    /\ writeHostFile = FALSE
    /\ NothingCollected
    /\ FileIdle
    /\ MergeIdle
    /\ hostFile = <<>>
    /\ origFile = <<>>
    /\ hostEntries = NoEntries

NextResolve ==
    \/ Start
    \/ \E e \in ResolveItems : nIngress < 1 /\ CollectIngress(e)

SpecResolve == InitResolve /\ [][NextResolve]_vars

----------------------------------------------------------------------------
(* SpecGateway: the loop over the HTTPRoutes, over every list of parent    *)
(* references                                                              *)

GatewayRouteItems ==
    { [name |-> "r", namespace |-> ns, specOk |-> TRUE,
       hostnames |-> <<NonString, [isString |-> TRUE, value |-> dLowerA]>>,
       parentRefs |-> pr] :
        ns \in {"ns1", "ns2"}, pr \in SeqsUpTo(Refs, MaxRefs) }
    \cup { [name |-> "r", namespace |-> "ns1", specOk |-> FALSE,
            hostnames |-> <<>>, parentRefs |-> <<>>] }

\* main at line 182, no Ingress collected, k8sHostname as k8sHost returned it
InitGateway ==
    /\ pc = "routes"
    /\ configHost \in {h \in ConfigHosts : ~UrlParse(h).err}
    /\ k8sHostname = k8sHost(configHost)
    /\ writeHostFile = FALSE
    /\ NothingCollected
    /\ hostFile = <<>>
    /\ origFile = <<>>
    /\ hostEntries = NoEntries
    /\ FileIdle
    /\ MergeIdle

NextGateway ==
    \/ \E r \in GatewayRouteItems : nRoutes < MaxGwRoutes /\ BeginRoute(r)
    \/ SkipParentRef
    \/ CachedParentRef
    \/ \E gw \in GwObjects : LookupParentRef(gw)
    \/ EmitRoute
    \/ RoutesDone

SpecGateway == InitGateway /\ [][NextGateway]_vars

----------------------------------------------------------------------------
(* SpecSort: sort and rendering, over every list of entries                *)

SortRules ==
    { [Domain |-> d, Address |-> "9.9.9.9", Service |-> sv] :
        d \in Domains, sv \in {"web", "ns1/r"} }

InitSort ==
    /\ pc = "sort"
    /\ entries \in SeqsUpTo(SortRules, MaxEntries)
    /\ configHost \in {h \in ConfigHosts : k8sHost(h) = "api.example"}
    /\ k8sHostname = k8sHost(configHost)
    /\ writeHostFile = FALSE
    /\ nIngress = 0
    /\ nRoutes = 0
    /\ elem = NoElem
    /\ route = NoRoute
    /\ refIdx = 0
    /\ address = ""
    /\ gwAddressCache = <<>>
    /\ fatal = ""
    /\ lookups = <<>>
    /\ observed = {}
    /\ resolved = <<>>
    /\ collected = <<>>
    /\ hostFile = <<>>
    /\ origFile = <<>>
    /\ hostEntries = NoEntries
    /\ FileIdle
    /\ MergeIdle

NextSort == SortAndRender

SpecSort == InitSort /\ [][NextSort]_vars

----------------------------------------------------------------------------
(* SpecMerge: tryWriteToHostFile applied again and again to one file       *)

InitMerge ==
    /\ configHost \in {h \in ConfigHosts : k8sHost(h) = "api.example"}
    /\ k8sHostname = k8sHost(configHost)
    /\ writeHostFile = TRUE
    /\ NothingCollected
    /\ FileIdle
    /\ MergeIdle
    /\ pc = "file"
    /\ hostFile \in SeqsUpTo(FileTokens, MaxFile)
    /\ origFile = hostFile
    /\ hostEntries = NoEntries

NextMerge == \E he \in Bodies : merges < MaxMerges /\ MergeApply(he)

SpecMerge == InitMerge /\ [][NextMerge]_vars

----------------------------------------------------------------------------
(* SpecRace: two runs in tryWriteToHostFile on one file                    *)

RaceFiles ==
    { <<>>,
      <<UserText, NL>>,
      <<UserText, NL>> \o Block(Render(<<RuleApi>>)) \o <<UserText, NL>> }

InitRace ==
    /\ configHost \in {h \in ConfigHosts : k8sHost(h) = "api.example"}
    /\ k8sHostname = k8sHost(configHost)
    /\ writeHostFile = TRUE
    /\ NothingCollected
    /\ MergeIdle
    /\ pc = "file"
    /\ hostFile \in RaceFiles
    /\ origFile = hostFile
    /\ hostEntries \in [Procs -> Bodies]
    /\ fpc = [p \in Procs |-> "read"]
    /\ fileContent = [p \in Procs |-> <<>>]
    /\ readContent = [p \in Procs |-> <<>>]
    /\ nReads = [p \in Procs |-> 0]
    /\ nWrites = [p \in Procs |-> 0]
    /\ fileLog = <<>>

NextRace ==
    \E p \in Procs :
        \/ ReadFileOk(p)
        \/ ReadFileFails(p)
        \/ MergeBlock(p)
        \/ OpenTrunc(p)
        \/ OpenFails(p)
        \/ WriteData(p)
        \/ WriteFails(p)

SpecRace == InitRace /\ [][NextRace]_vars

----------------------------------------------------------------------------
(* Claims *)

NonEmptyLb(lbs) == {i \in 1..Len(lbs) : lbs[i].IP # "" \/ lbs[i].Hostname # ""}

LastLbOr(lbs, fallback) ==
    IF NonEmptyLb(lbs) = {} THEN fallback
    ELSE LET lb == lbs[Max(NonEmptyLb(lbs))]
         IN  IF lb.IP # "" THEN lb.IP ELSE lb.Hostname

\* C1: the address of an Ingress is the value of the last status entry that
\* has a non-empty IP or hostname, its IP when that is non-empty and its
\* hostname otherwise; entries with both fields empty are passed over, and
\* with no such entry (the empty list too) the address is the fallback.
C1_LastNonEmptyEntryWins ==
    nIngress >= 1 =>
        /\ address = LastLbOr(elem.Status, k8sHostname)
        /\ Len(entries) = Len(elem.Rules)
        /\ \A i \in 1..Len(entries) :
              entries[i].Address = LastLbOr(elem.Status, k8sHostname)

C1_Witness ==
    /\ nIngress = 1
    /\ k8sHostname = "api.example"
    /\ elem.Status = << [IP |-> "", Hostname |-> ""],
                        [IP |-> "1.1.1.1", Hostname |-> ""],
                        [IP |-> "", Hostname |-> "h.example"] >>
    /\ Len(entries) = 1
    /\ entries[1].Address = "h.example"

SpanStarts(c) == {i \in 1..Len(c) : c[i] = StartTok}

SpanEnds(c) == {j \in 1..Len(c) : c[j] = EndTok /\ j < Len(c) /\ c[j + 1] = NL}

HasSpan(c) == \E i \in SpanStarts(c) : \E j \in SpanEnds(c) : i < j

C3_MergeIdempotent ==
    (merges >= 2 /\ lastBody = prevBody) => hostFile = prevFile

Count(c, t) == Cardinality({i \in 1..Len(c) : c[i] = t})

\* C8: after any merges the file holds at most one start marker and at most
\* one end marker.
C8_SingleManagedBlock ==
    merges >= 1 => Count(hostFile, StartTok) <= 1 /\ Count(hostFile, EndTok) <= 1

\* C4: gatewayAddress is called at most once for a key, a key whose first
\* lookup failed included, and every parent reference with the same key
\* observes the same address.
C4_OneLookupPerKey ==
    /\ \A i \in 1..Len(lookups) : \A j \in 1..Len(lookups) :
          lookups[i] = lookups[j] => i = j
    /\ \A o1 \in observed : \A o2 \in observed : o1[1] = o2[1] => o1[2] = o2[2]
    /\ \A o \in observed : o[1] \in DOMAIN gwAddressCache /\ gwAddressCache[o[1]] = o[2]
    /\ \A i \in 1..Len(lookups) :
          lookups[i] \in {ns \o "/" \o "gw" : ns \in {"ns1", "ns2"}}

\* the second route finds in the cache the failure the first route stored,
\* its reference naming no namespace and the first route's naming ns1
C4_Witness ==
    /\ nRoutes = 2
    /\ pc = "routes"
    /\ lookups = <<"ns1/gw">>
    /\ gwAddressCache["ns1/gw"] = ""
    /\ route.namespace = "ns1"
    /\ route.parentRefs = <<[isMap |-> TRUE, name |-> "gw", namespace |-> ""]>>
    /\ resolved = <<[key |-> "ns1/gw", addr |-> ""]>>

NonEmptyResolved == {i \in 1..Len(resolved) : resolved[i].addr # ""}

LastResolvedOr(fallback) ==
    IF NonEmptyResolved = {} THEN fallback ELSE resolved[Max(NonEmptyResolved)].addr

\* the keys of the parent references that are maps, among the first n of the route
RECURSIVE KeysOf(_, _)
KeysOf(refs, ns) ==
    IF refs = <<>> THEN <<>>
    ELSE (IF Head(refs).isMap
          THEN <<(IF Head(refs).namespace = "" THEN ns ELSE Head(refs).namespace)
                    \o "/" \o Head(refs).name>>
          ELSE <<>>) \o KeysOf(Tail(refs), ns)

StringHostnames(hn) == {i \in 1..Len(hn) : hn[i].isString}

\* C5: the address of an HTTPRoute is the address of the last parent
\* reference whose gateway resolved to a non-empty address, and k8sHostname
\* when none did; a reference that resolves to nothing, fresh or from the
\* cache, leaves the address as it was.  The records of the route carry
\* that address.
C5_LastResolvedParentWins ==
    route # NoRoute =>
        /\ address = LastResolvedOr(k8sHostname)
        /\ LET keys == KeysOf(SubSeq(route.parentRefs, 1, refIdx), route.namespace)
           IN  /\ Len(resolved) = Len(keys)
               /\ \A i \in 1..Len(resolved) :
                     /\ resolved[i].key = keys[i]
                     /\ resolved[i].addr = gwAddressCache[keys[i]]
        /\ pc = "routes" =>
              LET k == Cardinality(StringHostnames(route.hostnames))
              IN  /\ Len(entries) >= k
                  /\ \A i \in (Len(entries) - k + 1)..Len(entries) :
                        entries[i].Address = LastResolvedOr(k8sHostname)

\* the first reference resolved, the second failed: the first one's address stays
C5_Witness ==
    /\ pc = "routes"
    /\ route # NoRoute
    /\ Len(resolved) = 2
    /\ resolved[1].addr = "10.1.1.1"
    /\ resolved[2].addr = ""
    /\ address = "10.1.1.1"
    /\ entries # <<>>
    /\ entries[Len(entries)].Address = "10.1.1.1"

\* C6: no record has an empty Address.
C6_AddressNeverEmpty ==
    \A i \in 1..Len(entries) : entries[i].Address # ""

StrLeq(a, b) == a = b \/ StrLess(a, b)

\* C7: the rendered text is one line per collected record, none dropped and
\* none twice, and the lines are in the order of the lower-cased domains,
\* whatever the service.
C7_SortedByLowercaseDomain ==
    pc = "mode" =>
        LET he == hostEntries[MainRun]
            n == Len(collected)
        IN  /\ Len(he) = 2 * n
            /\ \A i \in 1..n : he[2 * i] = NL
            /\ \E f \in Permutations(1..n) :
                  \A i \in 1..n : he[2 * i - 1] = RuleString(collected[f[i]])
            /\ \A i \in 1..(n - 1) :
                  StrLeq(ToLower(he[2 * i - 1][3]), ToLower(he[2 * i + 1][3]))

\* "B" of web was collected before "a" of ns1/r, and is rendered after it
C7_Witness ==
    /\ pc = "mode"
    /\ Len(collected) = 3
    /\ collected[1] = [Domain |-> dUpperB, Address |-> "9.9.9.9", Service |-> "web"]
    /\ collected[2] = [Domain |-> dLowerA, Address |-> "9.9.9.9", Service |-> "ns1/r"]
    /\ collected[3] = [Domain |-> dUpperA, Address |-> "9.9.9.9", Service |-> "web"]
    /\ hostEntries[MainRun][5] = RuleString(collected[1])

LogIndex(ev) == {i \in 1..Len(fileLog) : fileLog[i] = ev}

\* C9: a run reads the host file at most once and writes it at most once,
\* and writes only after the Ingress list and the read succeeded; when the
\* list or the read fails the file is as it was and no write was tried; a
\* failed write ends the run and is not tried again; without -write the
\* file is neither read nor written.
C9_FileAccess ==
    LET r == MainRun IN
    /\ nReads[r] <= 1
    /\ nWrites[r] <= 1
    /\ nWrites[r] = 1 =>
          /\ fatal # "list ingress"
          /\ Len(fileLog) >= 1
          /\ fileLog[1] = <<"read", r>>
    /\ (nWrites[r] = 0 \/ fatal = "list ingress" \/ LogIndex(<<"read failed", r>>) # {}) =>
          /\ hostFile = origFile
          /\ nWrites[r] = 0
    /\ (LogIndex(<<"open failed", r>>) # {} \/ LogIndex(<<"write failed", r>>) # {}) =>
          /\ pc \in {"file", "fatal"}
          /\ fpc[r] = "err"
    /\ (pc = "fatal" /\ fatal = "tryWriteToHostFile") => fpc[r] = "err"
    /\ ~writeHostFile => nReads[r] = 0 /\ nWrites[r] = 0 /\ hostFile = origFile
    /\ pc = "done" =>
          /\ fileLog = <<<<"read", r>>, <<"trunc", r>>, <<"write", r>>>>
          /\ hostFile = MergedContent(origFile, hostEntries[r])

\* the write failed after the read succeeded, and the run ended
C9_Witness ==
    /\ pc = "fatal"
    /\ fatal = "tryWriteToHostFile"
    /\ fileLog = <<<<"read", MainRun>>, <<"trunc", MainRun>>, <<"write failed", MainRun>>>>
    /\ hostFile # origFile

BothDone == \A p \in Procs : fpc[p] = "done"

LastWriter == fileLog[Len(fileLog)][2]

OtherRun(p) == CHOOSE q \in Procs : q # p

\* the last writer's open truncated the file before the other run wrote
Overlapped ==
    Min(LogIndex(<<"trunc", LastWriter>>)) < Min(LogIndex(<<"write", OtherRun(LastWriter)>>))

\* C10, as claimed: when both runs have written, the file holds exactly
\* what the last writer wrote, the merge of what it read.
C10_LastWriterWins ==
    BothDone =>
        /\ hostFile = fileContent[LastWriter]
        /\ fileContent[LastWriter] =
              MergedContent(readContent[LastWriter], hostEntries[LastWriter])

\* C10, amended: when both runs have written, the file begins with what the
\* last writer wrote, the merge of what it read; it is exactly that when the
\* last writer opened the file after the other run's write, and otherwise
\* the other run's bytes beyond the last writer's length remain behind it.
C10_LastWriterWinsUnlessOverlapped ==
    BothDone =>
        LET w == LastWriter
            o == OtherRun(LastWriter)
        IN  /\ \A p \in Procs :
                  fileContent[p] = MergedContent(readContent[p], hostEntries[p])
            /\ hostFile = IF Overlapped
                          THEN fileContent[w]
                                 \o SubSeq(fileContent[o], Len(fileContent[w]) + 1,
                                           Len(fileContent[o]))
                          ELSE fileContent[w]

\* the writes overlapped and the file is a mixture
C10_Witness ==
    /\ BothDone
    /\ Overlapped
    /\ hostFile # fileContent[LastWriter]
    /\ Len(hostFile) > Len(fileContent[LastWriter])

====
